---- MODULE Spec2Model ----
(***************************************************************************)
(* Live_CV_server: the desktop login handshake store (app/desktop_auth.py, *)
(* app/api/auth.py, app/api/desktop_login.py) and the registration         *)
(* workflow (app/api/desktop_register.py) as state machines.               *)
(***************************************************************************)
EXTENDS Integers, Sequences, FiniteSets, TLC

VARIABLES
    now,        \* time.time() / datetime.now(), in seconds
    pending,    \* DesktopAuthStore.pending : dict state -> PendingLogin
    codes,      \* DesktopAuthStore.codes   : the keys of the dict (each maps to its AuthCode object)
    authCode,   \* the AuthCode objects still referenced (by the dict or by a running handler)
    nextCode,   \* how many codes secrets.token_urlsafe has produced so far
    wins,       \* history: per code, how many exchange_code calls returned its user_id
    pkceFails,  \* history: per code, whether an exchange_code call raised pkce_failed on it
    th,         \* the request handlers running exchange_code concurrently
    users,      \* table users: id -> row
    profiles,   \* table user_profiles: the user_id of each row (user_id is unique)
    regs,       \* table registration_sessions: id -> row
    nextReg,    \* how many registration ids uuid.uuid4 has produced so far
    checkout,   \* the payment provider's checkout sessions: id -> session
    stripeReady,\* _stripe_ready(): the secret key is configured and the package is installed
    hd          \* the request handlers of the registration workflow running concurrently

hsVars == <<pending, codes, authCode, nextCode, wins, pkceFails, th>>
dbVars == <<users, profiles, regs, nextReg, checkout, stripeReady, hd>>
vars == <<now, hsVars, dbVars>>

-----------------------------------------------------------------------------
(* Bounds of the model and constants of the program.                       *)

PendingTtl == 600
CodeTtl == 120
MaxTicks == 2
MaxCodes == 2

(* The clock moves in jumps of one code TTL, or of the rest of a pending TTL, *)
(* so that ages of exactly CodeTtl and of exactly PendingTtl both occur.     *)
ShortStep == CodeTtl
LongStep == PendingTtl - CodeTtl
TicksOf(t) == (t % LongStep) \div ShortStep + t \div LongStep

States == {"s1", "s2"}
RedirectUris == {"r1", "r2"}
Verifiers == {"v1", "v2"}
Challenges == {"c1", "c2"}
UserIds == {1, 2}
CodeIds == 1..MaxCodes

(* The login page requests and the logins of the model *)
PendingRequests == {<<"s1", "r1", "c1">>, <<"s1", "r2", "c2">>, <<"s2", "r1", "c2">>}
IssueRequests == {<<"s1", 1>>, <<"s2", 2>>}

(* pkce_challenge_from_verifier: base64url(sha256(verifier)) without       *)
(* padding.  SHA-256 is a fixed injective table on the verifiers of the    *)
(* model (no collisions).                                                  *)
Sha256B64 == [v \in Verifiers |-> IF v = "v1" THEN "c1" ELSE "c2"]
pkce_challenge_from_verifier(verifier) == Sha256B64[verifier]

-----------------------------------------------------------------------------
(* DesktopAuthStore, one call at a time.                                   *)

PendingLoginAtZero(state, redirect_uri, code_challenge, created_at) ==
    [state |-> state, redirect_uri |-> redirect_uri,
     code_challenge |-> code_challenge, created_at |-> 0]
PendingLogin(state, redirect_uri, code_challenge, created_at) ==
    [state |-> state, redirect_uri |-> redirect_uri,
     code_challenge |-> code_challenge, created_at |-> created_at]

AuthCodeOfFirstUser(code, user_id, state, code_challenge, created_at) ==
    [code |-> code, user_id |-> 1, state |-> state,
     code_challenge |-> code_challenge, created_at |-> created_at, used |-> FALSE]
AuthCode(code, user_id, state, code_challenge, created_at) ==
    [code |-> code, user_id |-> user_id, state |-> state,
     code_challenge |-> code_challenge, created_at |-> created_at, used |-> FALSE]

Restrict(f, S) == [k \in S |-> f[k]]

(* cleanup, line 52: the pending dict rebuilt from the entries younger than the TTL *)
CleanPendingKeep(p, t) == p
CleanPending(p, t) == Restrict(p, {k \in DOMAIN p : t - p[k].created_at < PendingTtl})

(* cleanup, line 53: the keys of the codes dict rebuilt: younger than the TTL and not used *)
CleanCodesKeepExpired(c, heap, t) == {k \in c : ~heap[k].used}
CleanCodes(c, heap, t) == {k \in c : t - heap[k].created_at < CodeTtl /\ ~heap[k].used}

(* AuthCode objects no longer referenced are garbage *)
Collect(heap, refs) == Restrict(heap, DOMAIN heap \cap refs)

(* line 84: auth_code.used = True, on the object *)
MarkUsedNot(heap, c) == heap
MarkUsedAll(heap, c) == [k \in DOMAIN heap |-> [heap[k] EXCEPT !.used = TRUE]]
MarkUsed(heap, c) == [heap EXCEPT ![c].used = TRUE]

(* exchange_code, lines 74-85: what the call raises, or "ok" when it returns user_id *)
ExchangeOutcomeNoPkce(code, code_verifier) ==
    IF code \notin CleanCodes(codes, authCode, now) \/ authCode[code].used
    THEN "invalid_code" ELSE "ok"
ExchangeOutcomeByPending(code, code_verifier) ==
    IF code \notin CleanCodes(codes, authCode, now) \/ authCode[code].used
    THEN "invalid_code"
    ELSE IF pkce_challenge_from_verifier(code_verifier) #
               (IF authCode[code].state \in DOMAIN pending
                THEN pending[authCode[code].state].code_challenge
                ELSE authCode[code].code_challenge)
    THEN "pkce_failed"
    ELSE "ok"
ExchangeOutcome(code, code_verifier) ==
    IF code \notin CleanCodes(codes, authCode, now) \/ authCode[code].used
    THEN "invalid_code"
    ELSE IF pkce_challenge_from_verifier(code_verifier) # authCode[code].code_challenge
    THEN "pkce_failed"
    ELSE "ok"

(* exchange_code, line 85: the value returned when the call does not raise *)
ExchangeResult(code) == authCode[code].user_id

(* desktop_exchange, src/app/api/auth.py lines 21-25: the HTTPException raised when *)
(* exchange_code raises                                                             *)
DesktopExchangeError(outcome) ==
    IF outcome = "pkce_failed"
    THEN [status_code |-> 401, detail |-> "PKCE verification failed"]
    ELSE [status_code |-> 401, detail |-> "Invalid or expired auth code"]

(* issue_code, lines 64-67 *)
IssueOutcome(state) ==
    IF state \in DOMAIN CleanPending(pending, now) THEN "ok" ELSE "unknown_state"

(* get_pending, lines 60-61: the PendingLogin returned, or None *)
NoPending == [state |-> "", redirect_uri |-> "", code_challenge |-> "", created_at |-> -1]
GetPendingResultStale(state) ==
    IF state \in DOMAIN pending THEN pending[state] ELSE NoPending
GetPendingResult(state) ==
    IF state \in DOMAIN CleanPending(pending, now) THEN pending[state] ELSE NoPending

(* the tables after init_db, before any registration *)
EmptyDb ==
    /\ users = << >>
    /\ profiles = {}
    /\ regs = << >>
    /\ nextReg = 0
    /\ checkout = << >>
    /\ stripeReady = FALSE
    /\ hd = << >>

InitStore ==
    /\ now = 0
    /\ pending = << >>
    /\ codes = {}
    /\ authCode = << >>
    /\ nextCode = 0
    /\ wins = [c \in CodeIds |-> 0]
    /\ pkceFails = [c \in CodeIds |-> FALSE]
    /\ th = << >>
    /\ EmptyDb

Tick ==
    /\ TicksOf(now) < MaxTicks
    /\ \E d \in {ShortStep, LongStep} : now' = now + d
    /\ UNCHANGED <<hsVars, dbVars>>

register_pending(state, redirect_uri, code_challenge) ==
    LET cp == CleanPending(pending, now)
        cc == CleanCodes(codes, authCode, now)
    IN /\ UNCHANGED <<now, nextCode, wins, pkceFails, th, dbVars>>
       /\ pending' = (state :> PendingLogin(state, redirect_uri, code_challenge, now)) @@ cp
       /\ codes' = cc
       /\ authCode' = Collect(authCode, cc)

get_pending(state) ==
    LET cc == CleanCodes(codes, authCode, now)
    IN /\ pending' = CleanPending(pending, now)
       /\ codes' = cc
       /\ authCode' = Collect(authCode, cc)
       /\ UNCHANGED <<now, nextCode, wins, pkceFails, th, dbVars>>

issue_code(state, user_id) ==
    LET cp == CleanPending(pending, now)
        cc == CleanCodes(codes, authCode, now)
        code == nextCode + 1
    IN /\ UNCHANGED <<now, wins, pkceFails, th, dbVars>>
       /\ IF IssueOutcome(state) = "unknown_state"
          THEN /\ UNCHANGED nextCode
               /\ codes' = cc
               /\ authCode' = Collect(authCode, cc)
          ELSE /\ nextCode < MaxCodes
               /\ nextCode' = code
               /\ codes' = cc \cup {code}
               /\ authCode' = (code :> AuthCode(code, user_id, state, cp[state].code_challenge, now))
                                 @@ Collect(authCode, cc)
       /\ pending' = cp

exchange_code(code, code_verifier) ==
    LET cc == CleanCodes(codes, authCode, now)
        outcome == ExchangeOutcome(code, code_verifier)
    IN /\ UNCHANGED <<now, nextCode, th, dbVars>>
       /\ wins' = IF outcome = "ok" THEN [wins EXCEPT ![code] = @ + 1] ELSE wins
       /\ pkceFails' = IF outcome = "pkce_failed" THEN [pkceFails EXCEPT ![code] = TRUE] ELSE pkceFails
       /\ pending' = CleanPending(pending, now)
       /\ codes' = cc
       /\ authCode' = IF outcome = "ok" THEN MarkUsed(Collect(authCode, cc), code)
                                        ELSE Collect(authCode, cc)

NextStore ==
    \/ Tick
    \/ \E q \in PendingRequests : register_pending(q[1], q[2], q[3])
    \/ \E s \in States : get_pending(s)
    \/ \E q \in IssueRequests : issue_code(q[1], q[2])
    \/ \E c \in CodeIds, v \in Verifiers : exchange_code(c, v)

SpecStore == InitStore /\ [][NextStore]_vars

-----------------------------------------------------------------------------
(* exchange_code run by concurrent request handlers.  desktop_exchange is a *)
(* plain def endpoint, so each request runs on its own worker thread; the   *)
(* store is the module-level singleton and takes no lock, so the threads'   *)
(* statements interleave.                                                   *)

Threads == {"t1", "t2"}

Idle == [pc |-> "idle", code |-> 0, verifier |-> "", tnow |-> 0,
         tmpP |-> << >>, tmpC |-> {}, ref |-> 0, res |-> ""]

(* a store the sequential calls reach: two logins pending, one code issued for each *)
InitExchange ==
    /\ now = 0
    /\ pending = ("s1" :> PendingLogin("s1", "r1", "c1", 0)) @@ ("s2" :> PendingLogin("s2", "r1", "c2", 0))
    /\ codes = {1, 2}
    /\ authCode = (1 :> AuthCode(1, 1, "s1", "c1", 0)) @@ (2 :> AuthCode(2, 2, "s2", "c2", 0))
    /\ nextCode = 2
    /\ wins = [c \in CodeIds |-> 0]
    /\ pkceFails = [c \in CodeIds |-> FALSE]
    /\ th = [t \in Threads |-> Idle]
    /\ EmptyDb

Finish(t, res) == [th EXCEPT ![t].pc = "done", ![t].res = res]

(* desktop_exchange calls store.exchange_code; line 51: now = time.time() *)
XBegin(t, code, code_verifier) ==
    /\ th[t].pc \in {"idle", "done"}
    /\ th' = [th EXCEPT ![t] = [Idle EXCEPT !.pc = "clean_pending", !.code = code,
                                            !.verifier = code_verifier, !.tnow = now]]
    /\ UNCHANGED <<now, pending, codes, authCode, nextCode, wins, pkceFails, dbVars>>

(* line 52, right-hand side: the comprehension over self.pending *)
XCleanPending(t) ==
    /\ th[t].pc = "clean_pending"
    /\ th' = [th EXCEPT ![t].pc = "set_pending", ![t].tmpP = CleanPending(pending, th[t].tnow)]
    /\ UNCHANGED <<now, pending, codes, authCode, nextCode, wins, pkceFails, dbVars>>

(* line 52: self.pending = ... *)
XSetPending(t) ==
    /\ th[t].pc = "set_pending"
    /\ pending' = th[t].tmpP
    /\ th' = [th EXCEPT ![t].pc = "clean_codes", ![t].tmpP = << >>]
    /\ UNCHANGED <<now, codes, authCode, nextCode, wins, pkceFails, dbVars>>

(* line 53, right-hand side: the comprehension over self.codes *)
XCleanCodes(t) ==
    /\ th[t].pc = "clean_codes"
    /\ th' = [th EXCEPT ![t].pc = "set_codes", ![t].tmpC = CleanCodes(codes, authCode, th[t].tnow)]
    /\ UNCHANGED <<now, pending, codes, authCode, nextCode, wins, pkceFails, dbVars>>

(* line 53: self.codes = ... *)
XSetCodes(t) ==
    /\ th[t].pc = "set_codes"
    /\ codes' = th[t].tmpC
    /\ th' = [th EXCEPT ![t].pc = "lookup", ![t].tmpC = {}]
    /\ UNCHANGED <<now, pending, authCode, nextCode, wins, pkceFails, dbVars>>

(* line 75: auth_code = self.codes.get(code); line 76: not auth_code *)
XLookup(t) ==
    /\ th[t].pc = "lookup"
    /\ th' = IF th[t].code \in codes
             THEN [th EXCEPT ![t].pc = "check_used", ![t].ref = th[t].code]
             ELSE Finish(t, "invalid_code")
    /\ UNCHANGED <<now, pending, codes, authCode, nextCode, wins, pkceFails, dbVars>>

(* line 76: auth_code.used *)
XCheckUsed(t) ==
    /\ th[t].pc = "check_used"
    /\ th' = IF authCode[th[t].ref].used
             THEN Finish(t, "invalid_code")
             ELSE [th EXCEPT ![t].pc = "pkce"]
    /\ UNCHANGED <<now, pending, codes, authCode, nextCode, wins, pkceFails, dbVars>>

(* lines 79-82 *)
XPkce(t) ==
    /\ th[t].pc = "pkce"
    /\ IF pkce_challenge_from_verifier(th[t].verifier) # authCode[th[t].ref].code_challenge
       THEN /\ th' = Finish(t, "pkce_failed")
            /\ pkceFails' = [pkceFails EXCEPT ![th[t].ref] = TRUE]
       ELSE /\ th' = [th EXCEPT ![t].pc = "mark"]
            /\ UNCHANGED pkceFails
    /\ UNCHANGED <<now, pending, codes, authCode, nextCode, wins, dbVars>>

(* line 84 *)
XMark(t) ==
    /\ th[t].pc = "mark"
    /\ authCode' = MarkUsed(authCode, th[t].ref)
    /\ th' = [th EXCEPT ![t].pc = "return"]
    /\ UNCHANGED <<now, pending, codes, nextCode, wins, pkceFails, dbVars>>

(* line 85 *)
XReturn(t) ==
    /\ th[t].pc = "return"
    /\ wins' = [wins EXCEPT ![th[t].ref] = @ + 1]
    /\ th' = Finish(t, "ok")
    /\ UNCHANGED <<now, pending, codes, authCode, nextCode, pkceFails, dbVars>>

NextExchange ==
    \/ Tick
    \/ \E t \in Threads, c \in CodeIds, v \in Verifiers : XBegin(t, c, v)
    \/ \E t \in Threads : XCleanPending(t)
    \/ \E t \in Threads : XSetPending(t)
    \/ \E t \in Threads : XCleanCodes(t)
    \/ \E t \in Threads : XSetCodes(t)
    \/ \E t \in Threads : XLookup(t)
    \/ \E t \in Threads : XCheckUsed(t)
    \/ \E t \in Threads : XPkce(t)
    \/ \E t \in Threads : XMark(t)
    \/ \E t \in Threads : XReturn(t)

SpecExchange == InitExchange /\ [][NextExchange]_vars

-----------------------------------------------------------------------------
(* The registration workflow: tables and the handlers' reads and commits.  *)

MaxRegs == 2
MaxCheckouts == 2
NoTime == -1
NoSession == 0
RegIds == 1..MaxRegs
CheckoutIds == 1..MaxCheckouts

(* email.strip().lower(), on emails as sequences of characters *)
LowerChar(ch) == IF ch = "A" THEN "a" ELSE IF ch = "B" THEN "b" ELSE ch
RECURSIVE LStrip(_)
LStrip(e) == IF e # << >> /\ Head(e) = " " THEN LStrip(Tail(e)) ELSE e
RECURSIVE RStrip(_)
RStrip(e) == IF e # << >> /\ e[Len(e)] = " " THEN RStrip(SubSeq(e, 1, Len(e) - 1)) ELSE e
RECURSIVE LowerSeq(_)
LowerSeq(e) == IF e = << >> THEN << >> ELSE <<LowerChar(Head(e))>> \o LowerSeq(Tail(e))
NormalizeNoLower(email) == RStrip(LStrip(email))
Normalize(email) == LowerSeq(RStrip(LStrip(email)))

(* the step 1 forms of the model *)
RegisterForms ==
    { [email |-> <<"a">>, password |-> "p1"],
      [email |-> <<" ", "A">>, password |-> "p1"],
      [email |-> <<"b", " ">>, password |-> "p2"],
      [email |-> <<" ">>, password |-> "p1"] }

(* passlib's salted hash: verify_password(p, h) holds exactly for the h made from p *)
hash_password(password) == <<"argon2", password>>
verify_password(password, password_hash) == password_hash = <<"argon2", password>>

SetMax(S) == CHOOSE x \in S : \A y \in S : y <= x
Max2(a, b) == IF a >= b THEN a ELSE b

(* users.id is an INTEGER PRIMARY KEY of the default SQLite database: max(rowid) + 1 *)
NewUserId(U) == IF DOMAIN U = {} THEN 1 ELSE SetMax(DOMAIN U) + 1

UserRow(email, password_hash) ==
    [email |-> email, password_hash |-> password_hash, email_verified_at |-> NoTime]
RegRow(user_id) ==
    [user_id |-> user_id, step |-> 2, status |-> "in_progress",
     stripe_checkout_session_id |-> NoSession, paid_at |-> NoTime]

(* the unit of work flushes only the columns whose value changed since the row was loaded *)
Dirty(row, assigned) == Restrict(assigned, {c \in DOMAIN assigned : assigned[c] # row[c]})
ApplyUpd(row, upd) == [c \in DOMAIN row |-> IF c \in DOMAIN upd THEN upd[c] ELSE row[c]]

(* what a handler has decided after its reads: its response and what its commit will flush *)
NoWrite(out) ==
    [out |-> out, kind |-> "none", reg |-> 0, regUpd |-> << >>, user |-> 0, userUpd |-> << >>,
     delProfile |-> FALSE, delUser |-> FALSE, email |-> << >>, hash |-> << >>]

(* register_submit, lines 168-185 *)
PlanSubmit(U, form) ==
    LET email_norm == Normalize(form.email)
    IN IF email_norm = << >> THEN NoWrite("email_required")
       ELSE IF \E u \in DOMAIN U : U[u].email = email_norm THEN NoWrite("email_already_registered")
       ELSE [NoWrite("redirect_email") EXCEPT !.kind = "insert", !.email = email_norm,
                                              !.hash = hash_password(form.password)]

(* register_cancel lines 205-213 and _cancel_and_delete lines 139-149 *)
NeverCompleted(row) == FALSE
IsCompleted(row) == row.status = "completed"
PlanCancel(U, P, R, reg) ==
    IF reg \notin DOMAIN R THEN NoWrite("canceled")
    ELSE IF IsCompleted(R[reg]) THEN NoWrite("already_completed")
    ELSE IF R[reg].user_id \notin DOMAIN U
         THEN [NoWrite("canceled") EXCEPT !.kind = "delete", !.reg = reg]
         ELSE [NoWrite("canceled") EXCEPT !.kind = "delete", !.reg = reg, !.user = R[reg].user_id,
                                          !.delUser = TRUE, !.delProfile = (R[reg].user_id \in P)]

(* register_email_next, lines 241-249 *)
EmailStepOverwrite(step) == 3
EmailStep(step) == Max2(step, 3)
VerifyAgain(U, uid) == uid \in DOMAIN U
NeedsVerify(U, uid) == uid \in DOMAIN U /\ U[uid].email_verified_at = NoTime
PlanEmailNext(U, R, reg, t) ==
    IF reg \notin DOMAIN R THEN NoWrite("invalid_session")
    ELSE LET uid == R[reg].user_id
         IN [NoWrite("redirect_2fa") EXCEPT
                !.kind = "update", !.reg = reg, !.user = uid,
                !.userUpd = IF NeedsVerify(U, uid) THEN [email_verified_at |-> t] ELSE << >>,
                !.regUpd = Dirty(R[reg], [step |-> EmailStep(R[reg].step)])]

(* register_2fa_next, lines 270-274 *)
PlanTwoFaNext(R, reg) ==
    IF reg \notin DOMAIN R THEN NoWrite("invalid_session")
    ELSE [NoWrite("redirect_payment") EXCEPT
             !.kind = "update", !.reg = reg,
             !.regUpd = Dirty(R[reg], [step |-> Max2(R[reg].step, 4)])]

(* register_payment_start, lines 323-354; sid is the id of the checkout session created *)
PlanPaymentStartAnyway(R, reg, ready, sid) ==
    IF reg \notin DOMAIN R THEN NoWrite("invalid_session")
    ELSE [NoWrite("redirect_checkout") EXCEPT
             !.kind = "update", !.reg = reg,
             !.regUpd = Dirty(R[reg], [stripe_checkout_session_id |-> sid])]
PlanPaymentStart(R, reg, ready, sid) ==
    IF reg \notin DOMAIN R THEN NoWrite("invalid_session")
    ELSE IF ~ready THEN NoWrite("payment_unavailable")
    ELSE [NoWrite("redirect_checkout") EXCEPT
             !.kind = "update", !.reg = reg,
             !.regUpd = Dirty(R[reg], [stripe_checkout_session_id |-> sid])]

(* register_payment_success, lines 365-392; lookupFails: Session.retrieve raises *)
PaidStatusTrusted(CK, session_id) == "paid"
PaidStatus(CK, session_id) == CK[session_id].payment_status
PlanPaymentSuccess(R, CK, reg, session_id, ready, lookupFails, t) ==
    IF reg \notin DOMAIN R THEN NoWrite("invalid_session")
    ELSE IF ~ready THEN NoWrite("payment_verification_unavailable")
    ELSE IF session_id = NoSession THEN NoWrite("missing_session_id")
    ELSE IF lookupFails \/ session_id \notin DOMAIN CK THEN NoWrite("could_not_verify_payment")
    ELSE IF PaidStatus(CK, session_id) # "paid" THEN NoWrite("payment_not_completed")
    ELSE [NoWrite("redirect_review") EXCEPT
             !.kind = "update", !.reg = reg,
             !.regUpd = [paid_at |-> t]
                        @@ Dirty(R[reg], [step |-> Max2(R[reg].step, 5),
                                          stripe_checkout_session_id |-> session_id])]

(* register_complete, lines 449-457 *)
PaymentGateOpen(row) == TRUE
PaymentGate(row) == row.paid_at # NoTime
PlanComplete(R, reg) ==
    IF reg \notin DOMAIN R THEN NoWrite("invalid_session")
    ELSE IF ~PaymentGate(R[reg]) THEN NoWrite("payment_required")
    ELSE [NoWrite("registration_complete") EXCEPT
             !.kind = "update", !.reg = reg,
             !.regUpd = Dirty(R[reg], [status |-> "completed", step |-> Max2(R[reg].step, 5)])]

(* db.commit(): the flush and the commit of what the handler changed, as one transaction. *)
(* An UPDATE that matches no row raises StaleDataError, a duplicate users.email raises    *)
(* IntegrityError (models.py line 15, unique=True); both leave the tables unchanged.      *)
InsertUserConflict(U, W) == \E u \in DOMAIN U : U[u].email = W.email
DeleteUserRow(U, W) == Restrict(U, DOMAIN U \ {W.user})
DeleteUserKept(U, W) == U
DeleteUser(U, W) == IF W.delUser THEN DeleteUserRow(U, W) ELSE U
Commit(U, P, R, nr, W) ==
    LET same(out) == [users |-> U, profiles |-> P, regs |-> R, nextReg |-> nr, out |-> out]
    IN CASE W.kind = "none" -> same(W.out)
         [] W.kind = "insert" ->
              IF InsertUserConflict(U, W) THEN same("could_not_create_user")
              ELSE [users |-> (NewUserId(U) :> UserRow(W.email, W.hash)) @@ U,
                    profiles |-> P \cup {NewUserId(U)},
                    regs |-> ((nr + 1) :> RegRow(NewUserId(U))) @@ R,
                    nextReg |-> nr + 1,
                    out |-> W.out]
         [] W.kind = "delete" ->
              [users |-> DeleteUser(U, W),
               profiles |-> IF W.delProfile THEN P \ {W.user} ELSE P,
               regs |-> Restrict(R, DOMAIN R \ {W.reg}),
               nextReg |-> nr,
               out |-> W.out]
         [] W.kind = "update" ->
              IF \/ (DOMAIN W.regUpd # {} /\ W.reg \notin DOMAIN R)
                 \/ (DOMAIN W.userUpd # {} /\ W.user \notin DOMAIN U)
              THEN same("stale_data_error")
              ELSE [users |-> IF DOMAIN W.userUpd # {}
                              THEN [U EXCEPT ![W.user] = ApplyUpd(@, W.userUpd)] ELSE U,
                    profiles |-> P,
                    regs |-> IF DOMAIN W.regUpd # {}
                             THEN [R EXCEPT ![W.reg] = ApplyUpd(@, W.regUpd)] ELSE R,
                    nextReg |-> nr,
                    out |-> W.out]

-----------------------------------------------------------------------------
(* The registration handlers, one request at a time.                       *)

InitReg ==
    /\ now = 0
    /\ pending = << >>
    /\ codes = {}
    /\ authCode = << >>
    /\ nextCode = 0
    /\ wins = [c \in CodeIds |-> 0]
    /\ pkceFails = [c \in CodeIds |-> FALSE]
    /\ th = << >>
    /\ EmptyDb

Run(W) ==
    \E c \in {Commit(users, profiles, regs, nextReg, W)} :
       /\ users' = c.users
       /\ profiles' = c.profiles
       /\ regs' = c.regs
       /\ nextReg' = c.nextReg

Outcome(W) == Commit(users, profiles, regs, nextReg, W).out

(* settings: the deployment is given, or loses, its payment provider key *)
Reconfigure ==
    /\ stripeReady' = ~stripeReady
    /\ UNCHANGED <<now, hsVars, users, profiles, regs, nextReg, checkout, hd>>

(* the customer pays on the provider's hosted checkout page *)
StripePay(sid) ==
    /\ sid \in DOMAIN checkout
    /\ checkout[sid].payment_status = "unpaid"
    /\ checkout' = [checkout EXCEPT ![sid].payment_status = "paid"]
    /\ UNCHANGED <<now, hsVars, users, profiles, regs, nextReg, stripeReady, hd>>

register_submit(form) ==
    /\ PlanSubmit(users, form).kind = "insert" => nextReg < MaxRegs
    /\ Run(PlanSubmit(users, form))
    /\ UNCHANGED <<now, hsVars, checkout, stripeReady, hd>>

register_cancel(reg) ==
    /\ Run(PlanCancel(users, profiles, regs, reg))
    /\ UNCHANGED <<now, hsVars, checkout, stripeReady, hd>>

(* the GET pages of lines 225-236, 254-265, 287-318 and 398-444 read and commit nothing *)
register_pages(reg) ==
    /\ UNCHANGED <<now, hsVars, dbVars>>

register_email_next(reg) ==
    /\ Run(PlanEmailNext(users, regs, reg, now))
    /\ UNCHANGED <<now, hsVars, checkout, stripeReady, hd>>

register_2fa_next(reg) ==
    /\ Run(PlanTwoFaNext(regs, reg))
    /\ UNCHANGED <<now, hsVars, checkout, stripeReady, hd>>

NewCheckoutId == Cardinality(DOMAIN checkout) + 1
CheckoutSession(reg) == [payment_status |-> "unpaid"]

register_payment_start(reg) ==
    LET W == PlanPaymentStart(regs, reg, stripeReady, NewCheckoutId)
    IN /\ W.kind = "update" => NewCheckoutId <= MaxCheckouts
       /\ checkout' = IF W.kind = "update"
                      THEN (NewCheckoutId :> CheckoutSession(reg)) @@ checkout
                      ELSE checkout
       /\ Run(W)
       /\ UNCHANGED <<now, hsVars, stripeReady, hd>>

register_payment_success(reg, session_id, lookupFails) ==
    /\ Run(PlanPaymentSuccess(regs, checkout, reg, session_id, stripeReady, lookupFails, now))
    /\ UNCHANGED <<now, hsVars, checkout, stripeReady, hd>>

register_complete(reg) ==
    /\ Run(PlanComplete(regs, reg))
    /\ UNCHANGED <<now, hsVars, checkout, stripeReady, hd>>

NextReg ==
    \/ Reconfigure
    \/ \E sid \in CheckoutIds : StripePay(sid)
    \/ \E form \in RegisterForms : register_submit(form)
    \/ \E reg \in RegIds : register_cancel(reg)
    \/ \E reg \in RegIds : register_pages(reg)
    \/ \E reg \in RegIds : register_email_next(reg)
    \/ \E reg \in RegIds : register_2fa_next(reg)
    \/ \E reg \in RegIds : register_payment_start(reg)
    \/ \E reg \in RegIds, sid \in CheckoutIds \cup {NoSession}, lookupFails \in BOOLEAN :
          register_payment_success(reg, sid, lookupFails)
    \/ \E reg \in RegIds : register_complete(reg)

SpecReg == InitReg /\ [][NextReg]_vars

-----------------------------------------------------------------------------
(* The registration handlers, one request at a time, with the clock of     *)
(* datetime.now running between the requests of one applicant.              *)

TimedForms == {form \in RegisterForms : form.email = <<"a">>}

InitRegTimed ==
    /\ now = 0
    /\ pending = << >>
    /\ codes = {}
    /\ authCode = << >>
    /\ nextCode = 0
    /\ wins = [c \in CodeIds |-> 0]
    /\ pkceFails = [c \in CodeIds |-> FALSE]
    /\ th = << >>
    /\ users = << >>
    /\ profiles = {}
    /\ regs = << >>
    /\ nextReg = 0
    /\ checkout = << >>
    /\ stripeReady = TRUE
    /\ hd = << >>

NextRegTimed ==
    \/ Tick
    \/ \E sid \in CheckoutIds : StripePay(sid)
    \/ \E form \in TimedForms : register_submit(form)
    \/ \E reg \in RegIds : register_cancel(reg)
    \/ \E reg \in RegIds : register_email_next(reg)
    \/ \E reg \in RegIds : register_2fa_next(reg)
    \/ \E reg \in RegIds : register_payment_start(reg)
    \/ \E reg \in RegIds, sid \in CheckoutIds \cup {NoSession}, lookupFails \in BOOLEAN :
          register_payment_success(reg, sid, lookupFails)
    \/ \E reg \in RegIds : register_complete(reg)

SpecRegTimed == InitRegTimed /\ [][NextRegTimed]_vars

-----------------------------------------------------------------------------
(* The registration handlers run by concurrent requests.  Each request has  *)
(* its own Session (db.py get_db); its reads see what is committed at that   *)
(* moment, and its commit flushes the changes it planned from those reads.   *)

Handlers == {"h1", "h2"}

HIdle == [pc |-> "idle", W |-> NoWrite("")]

(* the forms of concurrent requests: the spellings of one address *)
ConcForms == {f \in RegisterForms : Normalize(f.email) = <<"a">>}

InitRegConc ==
    /\ now = 0
    /\ pending = << >>
    /\ codes = {}
    /\ authCode = << >>
    /\ nextCode = 0
    /\ wins = [c \in CodeIds |-> 0]
    /\ pkceFails = [c \in CodeIds |-> FALSE]
    /\ th = << >>
    /\ users = << >>
    /\ profiles = {}
    /\ regs = << >>
    /\ nextReg = 0
    /\ checkout = << >>
    /\ stripeReady = TRUE
    /\ hd = [h \in Handlers |-> HIdle]

(* the handler has done its reads: it returns W.out at once, or goes on to its commit *)
Begin(h, W) ==
    /\ hd[h].pc = "idle"
    /\ hd' = [hd EXCEPT ![h] = IF W.kind = "none" THEN HIdle ELSE [pc |-> "commit", W |-> W]]

HSubmit(h, form) ==
    /\ Begin(h, PlanSubmit(users, form))
    /\ UNCHANGED <<now, hsVars, users, profiles, regs, nextReg, checkout, stripeReady>>

HCancel(h, reg) ==
    /\ Begin(h, PlanCancel(users, profiles, regs, reg))
    /\ UNCHANGED <<now, hsVars, users, profiles, regs, nextReg, checkout, stripeReady>>

HEmailNext(h, reg) ==
    /\ Begin(h, PlanEmailNext(users, regs, reg, now))
    /\ UNCHANGED <<now, hsVars, users, profiles, regs, nextReg, checkout, stripeReady>>

HTwoFaNext(h, reg) ==
    /\ Begin(h, PlanTwoFaNext(regs, reg))
    /\ UNCHANGED <<now, hsVars, users, profiles, regs, nextReg, checkout, stripeReady>>

(* lines 337-352: the checkout session is created at the provider before the commit *)
HPaymentStart(h, reg) ==
    LET W == PlanPaymentStart(regs, reg, stripeReady, NewCheckoutId)
    IN /\ W.kind = "update" => NewCheckoutId <= MaxCheckouts
       /\ Begin(h, W)
       /\ checkout' = IF W.kind = "update"
                      THEN (NewCheckoutId :> CheckoutSession(reg)) @@ checkout
                      ELSE checkout
       /\ UNCHANGED <<now, hsVars, users, profiles, regs, nextReg, stripeReady>>

HPaymentSuccess(h, reg, session_id, lookupFails) ==
    /\ Begin(h, PlanPaymentSuccess(regs, checkout, reg, session_id, stripeReady, lookupFails, now))
    /\ UNCHANGED <<now, hsVars, users, profiles, regs, nextReg, checkout, stripeReady>>

HComplete(h, reg) ==
    /\ Begin(h, PlanComplete(regs, reg))
    /\ UNCHANGED <<now, hsVars, users, profiles, regs, nextReg, checkout, stripeReady>>

(* db.commit() of the handler; it then returns Outcome(W) *)
HCommit(h) ==
    /\ hd[h].pc = "commit"
    /\ (hd[h].W.kind = "insert" /\ ~InsertUserConflict(users, hd[h].W)) => nextReg < MaxRegs
    /\ Run(hd[h].W)
    /\ hd' = [hd EXCEPT ![h] = HIdle]
    /\ UNCHANGED <<now, hsVars, checkout, stripeReady>>

NextRegConc ==
    \/ \E sid \in CheckoutIds : StripePay(sid)
    \/ \E h \in Handlers, form \in ConcForms : HSubmit(h, form)
    \/ \E h \in Handlers, reg \in RegIds : HCancel(h, reg)
    \/ \E h \in Handlers, reg \in RegIds : HEmailNext(h, reg)
    \/ \E h \in Handlers, reg \in RegIds : HTwoFaNext(h, reg)
    \/ \E h \in Handlers, reg \in RegIds : HPaymentStart(h, reg)
    \/ \E h \in Handlers, reg \in RegIds, sid \in CheckoutIds \cup {NoSession}, lookupFails \in BOOLEAN :
          HPaymentSuccess(h, reg, sid, lookupFails)
    \/ \E h \in Handlers, reg \in RegIds : HComplete(h, reg)
    \/ \E h \in Handlers : HCommit(h)

SpecRegConc == InitRegConc /\ [][NextRegConc]_vars

-----------------------------------------------------------------------------
(* The browser login of the desktop flow: src/app/api/desktop_login.py over *)
(* the users table and the store.                                           *)

(* settings.EXAMPLE_USER_EMAIL and settings.EXAMPLE_USER_PASSWORD *)
ExampleUserEmail == <<"b">>
ExampleUserPassword == "p2"

(* seed_example_user, bootstrap.py lines 17-32, called with the normalized email *)
SeedExampleUser(U) ==
    IF \E u \in DOMAIN U : U[u].email = Normalize(ExampleUserEmail) THEN U
    ELSE (NewUserId(U) :> [UserRow(Normalize(ExampleUserEmail), hash_password(ExampleUserPassword))
                              EXCEPT !.email_verified_at = 0]) @@ U

(* the login forms of the model: two spellings of addresses, two passwords, *)
(* and hidden fields that are those of a login page served or differ from   *)
(* it in the challenge, in the redirect_uri or in both                      *)
LoginTargets == {<<"s1", "r1", "c1">>, <<"s1", "r1", "c2">>, <<"s2", "r1", "c2">>}
LoginForms ==
    { [email |-> e, password |-> p, state |-> q[1], redirect_uri |-> q[2], code_challenge |-> q[3]] :
        e \in {<<" ", "A">>, <<"b">>}, p \in {"p1", "p2"}, q \in LoginTargets }

(* the time that passes in the handler between get_pending and issue_code *)
LoginDelays == {0, ShortStep}

(* desktop_login_submit, line 145 *)
PendingMatchesStateOnly(pend, form) == pend # NoPending
PendingMatches(pend, form) ==
    /\ pend # NoPending
    /\ pend.redirect_uri = form.redirect_uri
    /\ pend.code_challenge = form.code_challenge

(* desktop_login_submit, lines 149-150: users.email is unique, first() is the one match *)
FindUser(U, email) == {u \in DOMAIN U : U[u].email = Normalize(email)}
CredentialsOk(U, email, password) ==
    \E u \in FindUser(U, email) : verify_password(password, U[u].password_hash)

(* desktop_login_submit, lines 144-157; the ValueError of issue_code is not caught *)
LoginOutcome(form, d) ==
    IF ~PendingMatches(GetPendingResult(form.state), form) THEN "invalid_login_session"
    ELSE IF ~CredentialsOk(users, form.email, form.password) THEN "invalid_credentials"
    ELSE IF form.state \notin DOMAIN CleanPending(pending, now + d) THEN "unknown_state"
    ELSE "redirect"

(* the response: its status, and the redirect target with its query *)
LoginResponse(form, d) ==
    LET out == LoginOutcome(form, d)
        page(status_code) == [status_code |-> status_code, url |-> "", code |-> 0, state |-> ""]
    IN CASE out = "invalid_login_session" -> page(400)
         [] out = "invalid_credentials" -> page(401)
         [] out = "unknown_state" -> page(500)
         [] out = "redirect" -> [status_code |-> 302, url |-> form.redirect_uri,
                                 code |-> nextCode + 1, state |-> form.state]

InitLogin ==
    /\ now = 0
    /\ pending = << >>
    /\ codes = {}
    /\ authCode = << >>
    /\ nextCode = 0
    /\ wins = [c \in CodeIds |-> 0]
    /\ pkceFails = [c \in CodeIds |-> FALSE]
    /\ th = << >>
    /\ \E auto_seed \in BOOLEAN : users = IF auto_seed THEN SeedExampleUser(<< >>) ELSE << >>
    /\ profiles = {}
    /\ regs = << >>
    /\ nextReg = 0
    /\ checkout = << >>
    /\ stripeReady = FALSE
    /\ hd = << >>

(* desktop_login_page, lines 127-131 *)
desktop_login_page(state, redirect_uri, code_challenge) ==
    register_pending(state, redirect_uri, code_challenge)

desktop_login_submit(form, d) ==
    LET out == LoginOutcome(form, d)
        t == IF out \in {"unknown_state", "redirect"} THEN now + d ELSE now
        cp == CleanPending(pending, t)
        cc == CleanCodes(codes, authCode, t)
        code == nextCode + 1
    IN /\ UNCHANGED <<wins, pkceFails, th, dbVars>>
       /\ t # now => TicksOf(now) < MaxTicks
       /\ now' = t
       /\ pending' = cp
       /\ IF out = "redirect"
          THEN /\ nextCode < MaxCodes
               /\ nextCode' = code
               /\ codes' = cc \cup {code}
               /\ authCode' = (code :> AuthCode(code, CHOOSE u \in FindUser(users, form.email) : TRUE,
                                                form.state, cp[form.state].code_challenge, t))
                                 @@ Collect(authCode, cc)
          ELSE /\ UNCHANGED nextCode
               /\ codes' = cc
               /\ authCode' = Collect(authCode, cc)

NextLogin ==
    \/ Tick
    \/ \E form \in TimedForms : register_submit(form)
    \/ \E q \in PendingRequests : desktop_login_page(q[1], q[2], q[3])
    \/ \E form \in LoginForms, d \in LoginDelays : desktop_login_submit(form, d)

SpecLogin == InitLogin /\ [][NextLogin]_vars

-----------------------------------------------------------------------------
(* register_pending and issue_code run by concurrent request handlers.     *)
(* desktop_login_page and desktop_login_submit are sync handlers, which    *)
(* FastAPI runs in a thread pool, and DesktopAuthStore takes no lock: the  *)
(* threads interleave between the statements of cleanup and of the call,   *)
(* and between the right-hand side of an assignment and its store.         *)

SIdle == [pc |-> "idle", op |-> "", state |-> "", redirect_uri |-> "", code_challenge |-> "",
          user_id |-> 0, tnow |-> 0, tmpP |-> << >>, tmpC |-> {}]

(* the concurrent login pages are those of distinct states *)
ConcPendingRequests == {<<"s1", "r1", "c1">>, <<"s2", "r1", "c2">>}

InitStoreConc ==
    /\ now = 0
    /\ pending = << >>
    /\ codes = {}
    /\ authCode = << >>
    /\ nextCode = 0
    /\ wins = [c \in CodeIds |-> 0]
    /\ pkceFails = [c \in CodeIds |-> FALSE]
    /\ th = [t \in Threads |-> SIdle]
    /\ EmptyDb

(* register_pending is called, for a state no other thread is registering; *)
(* cleanup line 51: now = time.time()                                       *)
SBeginRegister(t, state, redirect_uri, code_challenge) ==
    /\ th[t].pc = "idle"
    /\ \A u \in Threads \ {t} : th[u].op = "register_pending" => th[u].state # state
    /\ th' = [th EXCEPT ![t] = [SIdle EXCEPT !.pc = "clean_pending", !.op = "register_pending",
                                             !.state = state, !.redirect_uri = redirect_uri,
                                             !.code_challenge = code_challenge, !.tnow = now]]
    /\ UNCHANGED <<now, pending, codes, authCode, nextCode, wins, pkceFails, dbVars>>

(* issue_code is called; cleanup line 51: now = time.time() *)
SBeginIssue(t, state, user_id) ==
    /\ th[t].pc = "idle"
    /\ th' = [th EXCEPT ![t] = [SIdle EXCEPT !.pc = "clean_pending", !.op = "issue_code",
                                             !.state = state, !.user_id = user_id, !.tnow = now]]
    /\ UNCHANGED <<now, pending, codes, authCode, nextCode, wins, pkceFails, dbVars>>

(* line 52, right-hand side: the comprehension over self.pending *)
SCleanPending(t) ==
    /\ th[t].pc = "clean_pending"
    /\ th' = [th EXCEPT ![t].pc = "set_pending", ![t].tmpP = CleanPending(pending, th[t].tnow)]
    /\ UNCHANGED <<now, pending, codes, authCode, nextCode, wins, pkceFails, dbVars>>

(* line 52: self.pending = ... *)
SSetPending(t) ==
    /\ th[t].pc = "set_pending"
    /\ pending' = th[t].tmpP
    /\ th' = [th EXCEPT ![t].pc = "clean_codes", ![t].tmpP = << >>]
    /\ UNCHANGED <<now, codes, authCode, nextCode, wins, pkceFails, dbVars>>

(* line 53, right-hand side: the comprehension over self.codes *)
SCleanCodes(t) ==
    /\ th[t].pc = "clean_codes"
    /\ th' = [th EXCEPT ![t].pc = "set_codes", ![t].tmpC = CleanCodes(codes, authCode, th[t].tnow)]
    /\ UNCHANGED <<now, pending, codes, authCode, nextCode, wins, pkceFails, dbVars>>

(* line 53: self.codes = ...; the call goes on after cleanup *)
SSetCodes(t) ==
    /\ th[t].pc = "set_codes"
    /\ codes' = th[t].tmpC
    /\ th' = [th EXCEPT ![t].pc = th[t].op, ![t].tmpC = {}]
    /\ UNCHANGED <<now, pending, authCode, nextCode, wins, pkceFails, dbVars>>

(* register_pending, line 57; the call returns *)
SRegister(t) ==
    /\ th[t].pc = "register_pending"
    /\ pending' = (th[t].state :> PendingLogin(th[t].state, th[t].redirect_uri,
                                               th[t].code_challenge, now)) @@ pending
    /\ th' = [th EXCEPT ![t] = SIdle]
    /\ UNCHANGED <<now, codes, authCode, nextCode, wins, pkceFails, dbVars>>

(* issue_code, lines 65-71; the call raises unknown_state or returns the code *)
SIssue(t) ==
    /\ th[t].pc = "issue_code"
    /\ IF th[t].state \notin DOMAIN pending
       THEN UNCHANGED <<codes, authCode, nextCode>>
       ELSE /\ nextCode < MaxCodes
            /\ nextCode' = nextCode + 1
            /\ codes' = codes \cup {nextCode + 1}
            /\ authCode' = ((nextCode + 1) :> AuthCode(nextCode + 1, th[t].user_id, th[t].state,
                                                       pending[th[t].state].code_challenge, now))
                              @@ authCode
    /\ th' = [th EXCEPT ![t] = SIdle]
    /\ UNCHANGED <<now, pending, wins, pkceFails, dbVars>>

(* the clock of the model jumps by TTLs; a call takes far less, so the     *)
(* jumps fall between the calls                                            *)
STick ==
    /\ \A t \in Threads : th[t].pc = "idle"
    /\ Tick

NextStoreConc ==
    \/ STick
    \/ \E t \in Threads, q \in ConcPendingRequests : SBeginRegister(t, q[1], q[2], q[3])
    \/ \E t \in Threads, q \in IssueRequests : SBeginIssue(t, q[1], q[2])
    \/ \E t \in Threads : SCleanPending(t)
    \/ \E t \in Threads : SSetPending(t)
    \/ \E t \in Threads : SCleanCodes(t)
    \/ \E t \in Threads : SSetCodes(t)
    \/ \E t \in Threads : SRegister(t)
    \/ \E t \in Threads : SIssue(t)

SpecStoreConc == InitStoreConc /\ [][NextStoreConc]_vars

-----------------------------------------------------------------------------
(* Claims about the handshake store.                                       *)

(* C2: of the handlers running exchange_code on one code, at most one returns *)
(* its user_id.                                                              *)
C2_AtMostOneWinner == \A c \in CodeIds : wins[c] <= 1

(* the state InitExchange starts from is one the sequential store reaches *)
InitExchangeReached ==
    /\ now = 0 /\ nextCode = 2 /\ codes = {1, 2}
    /\ pending = ("s1" :> PendingLogin("s1", "r1", "c1", 0)) @@ ("s2" :> PendingLogin("s2", "r1", "c2", 0))
    /\ authCode = (1 :> AuthCode(1, 1, "s1", "c1", 0)) @@ (2 :> AuthCode(2, 2, "s2", "c2", 0))

(* C1: a code satisfies exchange_code at most once: no code is ever exchanged twice, *)
(* and exchange_code on a code that was already exchanged raises invalid_code,       *)
(* whatever the verifier and however young the code is, and exchanges nothing.       *)
C1_OneTimeUse ==
    /\ [](\A c \in CodeIds : wins[c] <= 1)
    /\ [](\A c \in CodeIds, v \in Verifiers :
             wins[c] >= 1 => ExchangeOutcome(c, v) = "invalid_code")
    /\ [][\A c \in CodeIds :
            wins[c] >= 1 => (wins' = wins \/ \A v \in Verifiers : ~exchange_code(c, v))]_vars

(* a code was exchanged and then purged by a later call, its TTL not yet run out *)
C1_Witness == \E c \in CodeIds : wins[c] = 1 /\ c \notin codes /\ now = 0

(* a code that is in the store, younger than its TTL and not used *)
C3_Live == {c \in codes : now - authCode[c].created_at < CodeTtl /\ ~authCode[c].used}

(* C3: on a live, unused code a verifier whose digest differs from the stored       *)
(* challenge raises pkce_failed and leaves the code in the store, unused; the        *)
(* verifier whose digest equals it then still succeeds, for the first and only time. *)
C3_PkceFailureKeepsCode ==
    /\ [](\A c \in C3_Live, v \in Verifiers :
             /\ wins[c] = 0
             /\ ExchangeOutcome(c, v) =
                   IF pkce_challenge_from_verifier(v) # authCode[c].code_challenge
                   THEN "pkce_failed" ELSE "ok")
    /\ [][\A c \in C3_Live, v \in Verifiers :
            \/ IF pkce_challenge_from_verifier(v) # authCode[c].code_challenge
               THEN c \in codes' /\ authCode'[c] = authCode[c] /\ wins' = wins
               ELSE wins'[c] = 1 /\ authCode'[c].used
            \/ ~exchange_code(c, v)]_vars

(* a code on which PKCE failed was later exchanged *)
C3_Witness == \E c \in CodeIds : pkceFails[c] /\ wins[c] = 1

(* the states with a registered PendingLogin younger than its TTL *)
C18_LivePending == {s \in DOMAIN pending : now - pending[s].created_at < PendingTtl}

(* C18: issue_code succeeds exactly when the state has a live PendingLogin; *)
(* otherwise it raises unknown_state and adds no code to the store.        *)
C18_IssueNeedsLivePending ==
    /\ [](\A s \in States :
             IssueOutcome(s) = IF s \in C18_LivePending THEN "ok" ELSE "unknown_state")
    /\ [][\A q \in IssueRequests :
            \/ q[1] \in C18_LivePending
            \/ nextCode' = nextCode /\ codes' \subseteq codes
                  /\ DOMAIN authCode' \subseteq DOMAIN authCode
            \/ ~issue_code(q[1], q[2])]_vars

(* a PendingLogin is still in the dict although its TTL has run out, and a *)
(* code had been issued in its time                                        *)
C18_Witness ==
    /\ nextCode >= 1
    /\ \E s \in DOMAIN pending : s \notin C18_LivePending

(* C19: issue_code binds the code to the user id it is given, the binding   *)
(* of a stored code never changes whatever is issued or exchanged, and an   *)
(* exchange of a live, unused code with the verifier of its challenge       *)
(* returns the bound user id.                                               *)
C19_ExchangeReturnsBoundUser ==
    /\ [][\A q \in IssueRequests :
            \/ nextCode' = nextCode
            \/ authCode'[nextCode'].user_id = q[2]
            \/ ~issue_code(q[1], q[2])]_vars
    /\ [][\A c \in codes \cap codes' : authCode'[c].user_id = authCode[c].user_id]_vars
    /\ [](\A c \in C3_Live, v \in Verifiers :
             pkce_challenge_from_verifier(v) = authCode[c].code_challenge
                => /\ ExchangeOutcome(c, v) = "ok"
                   /\ ExchangeResult(c) = authCode[c].user_id
                   /\ \E q \in IssueRequests : q[1] = authCode[c].state /\ q[2] = ExchangeResult(c))

(* the code of one user was exchanged while the code of another user,      *)
(* issued before it, is still live and unused                               *)
C19_Witness ==
    /\ {1, 2} \subseteq codes
    /\ authCode[1].user_id # authCode[2].user_id
    /\ wins[2] = 1 /\ authCode[2].used
    /\ wins[1] = 0 /\ 1 \in C3_Live

(* C20: issue_code and exchange_code leave every live PendingLogin as it    *)
(* was; a live state can have another code issued, new, unused and with the *)
(* challenge of its PendingLogin; a code becomes used only by its own       *)
(* successful exchange, so the new code is exchanged once with its verifier. *)
C20_PendingNotConsumed ==
    /\ [][\A s \in C18_LivePending :
            \/ s \in DOMAIN pending' /\ pending'[s] = pending[s]
            \/ /\ \A q \in IssueRequests : ~issue_code(q[1], q[2])
               /\ \A c \in CodeIds, v \in Verifiers : ~exchange_code(c, v)]_vars
    /\ [](\A s \in C18_LivePending : IssueOutcome(s) = "ok")
    /\ [][\/ nextCode' = nextCode
          \/ LET c == nextCode'
             IN /\ c \notin codes /\ c \in codes'
                /\ wins[c] = 0 /\ ~authCode'[c].used
                /\ authCode'[c].state \in C18_LivePending
                /\ authCode'[c].code_challenge = pending[authCode'[c].state].code_challenge]_vars
    /\ [][\A c \in codes \cap codes' :
            authCode'[c].used = authCode[c].used \/ wins'[c] = wins[c] + 1]_vars
    /\ [](\A c \in C3_Live, v \in Verifiers :
             pkce_challenge_from_verifier(v) = authCode[c].code_challenge
                => (wins[c] = 0 /\ ExchangeOutcome(c, v) = "ok"))

(* two codes were issued for the one state ever registered, and each was   *)
(* exchanged                                                               *)
C20_Witness ==
    /\ now = 0
    /\ DOMAIN pending = {"s1"}
    /\ wins[1] = 1 /\ wins[2] = 1

(* C21: get_pending returns the PendingLogin of a state exactly when the    *)
(* state has one younger than the pending TTL, and nothing otherwise; an    *)
(* entry appears or changes only by register_pending, which stamps it with  *)
(* the time of the call.                                                    *)
C21_GetPendingOnlyLive ==
    /\ [](\A s \in States :
             GetPendingResult(s) = IF s \in C18_LivePending THEN pending[s] ELSE NoPending)
    /\ [][\A s \in DOMAIN pending' :
            \/ s \in DOMAIN pending /\ pending'[s] = pending[s]
            \/ /\ pending'[s].created_at = now
               /\ \E q \in PendingRequests :
                     q[1] = s /\ register_pending(q[1], q[2], q[3])]_vars

(* one PendingLogin has outlived its TTL and is still in the dict, another *)
(* is live                                                                 *)
C21_Witness ==
    /\ \E s \in DOMAIN pending : now - pending[s].created_at >= PendingTtl
    /\ C18_LivePending # {}

(* C22: whatever time has passed, exchange_code does not succeed on a code  *)
(* as old as the code TTL and issue_code does not succeed on a PendingLogin *)
(* as old as the pending TTL, and the code TTL is the shorter one.          *)
C22_NoStaleAccepted ==
    /\ [](CodeTtl < PendingTtl)
    /\ [](\A c \in codes, v \in Verifiers :
             now - authCode[c].created_at >= CodeTtl => ExchangeOutcome(c, v) = "invalid_code")
    /\ [](\A s \in DOMAIN pending :
             now - pending[s].created_at >= PendingTtl => IssueOutcome(s) = "unknown_state")
    /\ [][\A c \in codes :
            now - authCode[c].created_at >= CodeTtl
               => (wins' = wins \/ \A v \in Verifiers : ~exchange_code(c, v))]_vars
    /\ [][\A q \in IssueRequests :
            (q[1] \in DOMAIN pending /\ now - pending[q[1]].created_at >= PendingTtl)
               => (nextCode' = nextCode \/ ~issue_code(q[1], q[2]))]_vars

(* an unused code has run out of time while the PendingLogin it was issued *)
(* for is still live                                                       *)
C22_Witness ==
    \E c \in codes :
       /\ now - authCode[c].created_at >= CodeTtl /\ ~authCode[c].used
       /\ authCode[c].state \in C18_LivePending
       /\ pending[authCode[c].state].created_at <= authCode[c].created_at

(* C23: the dict holds one PendingLogin per state; register_pending can     *)
(* always be called and leaves, for its state, the redirect_uri and         *)
(* challenge it was given with the time of the call; get_pending returns    *)
(* that entry while it is live, and a code issued then binds its challenge. *)
C23_LastRegistrationWins ==
    /\ [](\A s \in DOMAIN pending : pending[s].state = s)
    /\ [](\A q \in PendingRequests :
            ENABLED (/\ register_pending(q[1], q[2], q[3])
                     /\ q[1] \in DOMAIN pending'
                     /\ pending'[q[1]].redirect_uri = q[2]
                     /\ pending'[q[1]].code_challenge = q[3]
                     /\ pending'[q[1]].created_at = now))
    /\ [](\A s \in C18_LivePending : GetPendingResult(s) = pending[s])
    /\ [][\/ nextCode' = nextCode
          \/ authCode'[nextCode'].code_challenge
                = pending[authCode'[nextCode'].state].code_challenge]_vars

(* two live codes of one state bind different challenges: the state was     *)
(* registered again between them, and the later code binds the later one    *)
C23_Witness ==
    /\ {1, 2} \subseteq C3_Live
    /\ authCode[1].state = authCode[2].state
    /\ authCode[1].code_challenge # authCode[2].code_challenge
    /\ authCode[2].state \in C18_LivePending
    /\ pending[authCode[2].state].code_challenge = authCode[2].code_challenge

(* C24: the response of the exchange endpoint to a PKCE failure and its     *)
(* response to an invalid, used or expired code are the same.               *)
C24_FailuresIndistinguishable ==
    \A c1, c2 \in CodeIds, v1, v2 \in Verifiers :
       (ExchangeOutcome(c1, v1) = "pkce_failed" /\ ExchangeOutcome(c2, v2) = "invalid_code")
          => DesktopExchangeError(ExchangeOutcome(c1, v1))
                = DesktopExchangeError(ExchangeOutcome(c2, v2))

(* C26: a stored code keeps the challenge and state it was issued with; when *)
(* its state has been registered again with another challenge, exchanging   *)
(* the code succeeds with the verifier of its own challenge and raises      *)
(* pkce_failed with any other, the verifier of the new challenge included.  *)
C26_ChallengeCopiedAtIssue ==
    /\ [][\A c \in codes \cap codes' :
            /\ authCode'[c].code_challenge = authCode[c].code_challenge
            /\ authCode'[c].state = authCode[c].state]_vars
    /\ [][\/ nextCode' = nextCode
          \/ /\ authCode'[nextCode'].state \in DOMAIN pending
             /\ authCode'[nextCode'].code_challenge
                   = pending[authCode'[nextCode'].state].code_challenge]_vars
    /\ [](\A c \in C3_Live, v \in Verifiers :
             (/\ authCode[c].state \in DOMAIN pending
              /\ pending[authCode[c].state].code_challenge # authCode[c].code_challenge)
                => ExchangeOutcome(c, v) =
                      IF pkce_challenge_from_verifier(v) = authCode[c].code_challenge THEN "ok"
                      ELSE "pkce_failed")

(* a live, unused code whose state now has a PendingLogin of another challenge *)
C26_Witness ==
    \E c \in C3_Live :
       /\ authCode[c].state \in C18_LivePending
       /\ pending[authCode[c].state].code_challenge # authCode[c].code_challenge
       /\ \E v \in Verifiers :
             pkce_challenge_from_verifier(v) = pending[authCode[c].state].code_challenge

-----------------------------------------------------------------------------
(* Registration workflow, one request at a time (SpecReg).                  *)

(* C4: a RegistrationSession is never completed while paid_at is unset, and  *)
(* register_complete on a session without paid_at answers "payment          *)
(* required" and leaves the session, in_progress, as it was.                *)
C4_CompletedImpliesPaid ==
    /\ [](\A r \in DOMAIN regs : regs[r].status = "completed" => regs[r].paid_at # NoTime)
    /\ [][\A r \in RegIds :
            (r \in DOMAIN regs /\ regs[r].paid_at = NoTime /\ register_complete(r))
                => /\ Outcome(PlanComplete(regs, r)) = "payment_required"
                   /\ regs' = regs
                   /\ regs'[r].status = "in_progress"]_vars

(* one session was completed while another, at the payment step, is still unpaid *)
C4_Witness ==
    \E r1, r2 \in DOMAIN regs :
       /\ regs[r1].status = "completed"
       /\ regs[r2].status = "in_progress" /\ regs[r2].step >= 4 /\ regs[r2].paid_at = NoTime

(* C5: paid_at of a session changes only in register_payment_success, with   *)
(* the provider configured, its lookup of the given checkout session         *)
(* answered, and the payment status it reported being "paid"; a new session  *)
(* starts with paid_at unset.                                                *)
C5_PaidAtOnlyAfterLookup ==
    [][/\ \A r \in DOMAIN regs' \ DOMAIN regs : regs'[r].paid_at = NoTime
       /\ \A r \in DOMAIN regs \cap DOMAIN regs' :
             regs'[r].paid_at # regs[r].paid_at
                => \E sid \in CheckoutIds :
                      /\ register_payment_success(r, sid, FALSE)
                      /\ stripeReady
                      /\ sid \in DOMAIN checkout
                      /\ checkout[sid].payment_status = "paid"]_vars

(* a session is paid while another checkout session is still unpaid at the provider *)
C5_Witness ==
    /\ \E r \in DOMAIN regs : regs[r].paid_at # NoTime
    /\ \E sid \in DOMAIN checkout : checkout[sid].payment_status = "unpaid"

(* C6: register_cancel of an in_progress session removes, in its one commit, *)
(* the session, its user and that user's profile, and touches no other row.  *)
C6_CancelDeletesAll ==
    [][\A r \in RegIds :
          (r \in DOMAIN regs /\ regs[r].status = "in_progress" /\ register_cancel(r))
              => LET uid == regs[r].user_id
                 IN /\ Outcome(PlanCancel(users, profiles, regs, r)) = "canceled"
                    /\ uid \in DOMAIN users /\ uid \in profiles
                    /\ r \notin DOMAIN regs'
                    /\ uid \notin DOMAIN users'
                    /\ uid \notin profiles'
                    /\ regs' = Restrict(regs, DOMAIN regs \ {r})
                    /\ users' = Restrict(users, DOMAIN users \ {uid})
                    /\ profiles' = profiles \ {uid}]_vars

(* both sessions that were started have been canceled: no row is left *)
C6_Witness == nextReg = 2 /\ regs = << >> /\ users = << >> /\ profiles = {}

(* C7: register_cancel of a completed session answers that it can no longer  *)
(* be canceled, and leaves the sessions, the users and the profiles as they  *)
(* were.                                                                     *)
C7_CancelCompletedRejected ==
    [][\A r \in RegIds :
          (r \in DOMAIN regs /\ regs[r].status = "completed" /\ register_cancel(r))
              => /\ Outcome(PlanCancel(users, profiles, regs, r)) = "already_completed"
                 /\ regs' = regs /\ users' = users /\ profiles' = profiles]_vars

(* a completed session, with its user and its profile *)
C7_Witness ==
    \E r \in DOMAIN regs :
       /\ regs[r].status = "completed"
       /\ regs[r].user_id \in DOMAIN users
       /\ regs[r].user_id \in profiles

(* the forms whose address is that of an existing user: by the trimmed,     *)
(* lowercased form, and " A" or "a" once "a" is registered                   *)
C8_FormEmail == [form \in RegisterForms |-> Normalize(form.email)]
C8_Duplicates ==
    {form \in RegisterForms :
        \/ \E u \in DOMAIN users : Normalize(users[u].email) = C8_FormEmail[form]
        \/ /\ form.email \in {<<"a">>, <<" ", "A">>}
           /\ \E u \in DOMAIN users : users[u].email = <<"a">>}

(* C8: register_submit with an email whose trimmed, lowercased form is that  *)
(* of an existing user (in particular " A" after "a") answers "email already *)
(* registered" and creates no user, profile or session; no two users share a *)
(* normalized email.                                                         *)
C8_DuplicateEmailRejected ==
    /\ [](\A u1, u2 \in DOMAIN users :
             Normalize(users[u1].email) = Normalize(users[u2].email) => u1 = u2)
    /\ [](\A u1, u2 \in DOMAIN users :
             (users[u1].email \in {<<"a">>, <<"A">>} /\ users[u2].email \in {<<"a">>, <<"A">>})
                => u1 = u2)
    /\ [](\A form \in C8_Duplicates :
             Outcome(PlanSubmit(users, form)) = "email_already_registered")
    /\ [][\/ (users' = users /\ profiles' = profiles /\ regs' = regs /\ nextReg' = nextReg)
          \/ \A form \in C8_Duplicates : ~register_submit(form)]_vars

(* two users, of different addresses, are registered: a third form is a duplicate *)
C8_Witness ==
    /\ Cardinality(DOMAIN users) = 2
    /\ \A form \in RegisterForms :
          Normalize(form.email) # << >>
             => \E u \in DOMAIN users : users[u].email = Normalize(form.email)

(* C9: no step of the workflow, in any order and any number of times, lowers *)
(* the step of a session.                                                    *)
C9_StepNeverDecreases ==
    [][\A r \in DOMAIN regs \cap DOMAIN regs' : regs'[r].step >= regs[r].step]_vars

(* a session is at step 5 although its email step was never taken *)
C9_Witness ==
    \E r \in DOMAIN regs :
       /\ regs[r].step = 5
       /\ regs[r].user_id \in DOMAIN users
       /\ users[regs[r].user_id].email_verified_at = NoTime

(* C11: once a session is completed, no operation changes its step, status, *)
(* paid_at or checkout session reference.                                   *)
C11_CompletedImmutable ==
    [][\A r \in DOMAIN regs :
          regs[r].status = "completed" => (r \in DOMAIN regs' /\ regs'[r] = regs[r])]_vars

(* C12: the step of a session moves one step at a time, and a session at    *)
(* step 5 or completed has had its email advance performed.                 *)
C12_StrictStepOrder ==
    /\ [][\A r \in DOMAIN regs \cap DOMAIN regs' :
            regs'[r].step \in {regs[r].step, regs[r].step + 1}]_vars
    /\ [](\A r \in DOMAIN regs :
             (regs[r].step = 5 \/ regs[r].status = "completed")
                => users[regs[r].user_id].email_verified_at # NoTime)

(* C13: a session at step 5 has paid_at set. *)
C13_StepFiveImpliesPaid ==
    \A r \in DOMAIN regs : regs[r].step = 5 => regs[r].paid_at # NoTime

(* a session reached step 5 by the payment callback and is not yet completed, *)
(* another was completed                                                      *)
C13_Witness ==
    \E r1, r2 \in DOMAIN regs :
       /\ regs[r1].step = 5 /\ regs[r1].status = "in_progress"
       /\ regs[r2].step = 5 /\ regs[r2].status = "completed"

(* C14: a payment callback whose checkout session the provider reports not  *)
(* paid answers "payment not completed" and changes no session; whenever    *)
(* the provider reports a session paid the callback is accepted and sets    *)
(* paid_at, and a session with paid_at set can be completed.                *)
C14_NotPaidKeepsSession ==
    /\ [](stripeReady =>
            \A r \in DOMAIN regs, sid \in DOMAIN checkout :
               Outcome(PlanPaymentSuccess(regs, checkout, r, sid, stripeReady, FALSE, now))
                  = IF checkout[sid].payment_status = "paid"
                    THEN "redirect_review" ELSE "payment_not_completed")
    /\ [](\A r \in DOMAIN regs :
             regs[r].paid_at # NoTime
                => Outcome(PlanComplete(regs, r)) = "registration_complete")
    /\ [][stripeReady =>
            \A r \in DOMAIN regs, sid \in DOMAIN checkout :
               \/ IF checkout[sid].payment_status = "paid"
                  THEN r \in DOMAIN regs' /\ regs'[r].paid_at # NoTime
                  ELSE regs' = regs /\ users' = users /\ profiles' = profiles
               \/ ~register_payment_success(r, sid, FALSE)]_vars

(* a session at the payment step, not paid, refers to a checkout session    *)
(* that the provider reports unpaid                                          *)
C14_Witness ==
    /\ stripeReady
    /\ \E r \in DOMAIN regs :
          /\ regs[r].step = 4 /\ regs[r].paid_at = NoTime
          /\ regs[r].stripe_checkout_session_id \in DOMAIN checkout
          /\ checkout[regs[r].stripe_checkout_session_id].payment_status = "unpaid"

C16_PaidAtSetOnce ==
    [][\A r \in DOMAIN regs :
          regs[r].paid_at # NoTime
             => \/ /\ r \in DOMAIN regs'
                   /\ regs'[r].paid_at = regs[r].paid_at
                   /\ regs'[r].step = 5
                \/ \A sid \in CheckoutIds : ~register_payment_success(r, sid, FALSE)]_vars

(* C17: payment start for a session whose paid_at is set creates no checkout *)
(* session and leaves the session's checkout reference as it was.            *)
C17_NoCheckoutAfterPaid ==
    [][\A r \in DOMAIN regs :
          regs[r].paid_at # NoTime
             => \/ /\ checkout' = checkout
                   /\ r \in DOMAIN regs'
                   /\ regs'[r].stripe_checkout_session_id = regs[r].stripe_checkout_session_id
                \/ ~register_payment_start(r)]_vars

(* C27: the email advance writes email_verified_at only when it is unset:   *)
(* no step changes a value already written, and every advance, the first    *)
(* or a repeated one, leaves the step at max(step, 3).                      *)
C27_EmailAdvanceIdempotent ==
    /\ [][\A u \in DOMAIN users \cap DOMAIN users' :
            \/ users[u].email_verified_at = NoTime
            \/ users'[u].email_verified_at = users[u].email_verified_at]_vars
    /\ [][\A r \in DOMAIN regs :
            \/ /\ r \in DOMAIN regs'
               /\ regs'[r].step = Max2(regs[r].step, 3)
               /\ regs[r].user_id \in DOMAIN users'
               /\ users'[regs[r].user_id].email_verified_at
                     = IF users[regs[r].user_id].email_verified_at = NoTime
                       THEN now ELSE users[regs[r].user_id].email_verified_at
            \/ ~register_email_next(r)]_vars

(* a session past the email step whose user was verified at an earlier time *)
C27_Witness ==
    \E r \in DOMAIN regs :
       /\ regs[r].step >= 3
       /\ users[regs[r].user_id].email_verified_at # NoTime
       /\ users[regs[r].user_id].email_verified_at < now

(* C30: paid_at of a session changes only in a payment callback that     *)
(* carries the reference stored on that session by its payment step.      *)
C30_CallbackOwnReference ==
    [][\A r \in DOMAIN regs \cap DOMAIN regs' :
          \/ regs'[r].paid_at = regs[r].paid_at
          \/ /\ regs[r].stripe_checkout_session_id # NoSession
             /\ register_payment_success(r, regs[r].stripe_checkout_session_id, FALSE)]_vars

-----------------------------------------------------------------------------
(* The browser login (SpecLogin).                                           *)

C25_Allowed(form) ==
    /\ form.state \in C18_LivePending
    /\ pending[form.state].redirect_uri = form.redirect_uri
    /\ pending[form.state].code_challenge = form.code_challenge
    /\ \E u \in DOMAIN users : /\ users[u].email = Normalize(form.email)
                                /\ verify_password(form.password, users[u].password_hash)

(* C25: a login submission answers with the redirect carrying a code only   *)
(* when the state has a live PendingLogin with the submitted redirect_uri   *)
(* and challenge and the password verifies for the user of the normalized   *)
(* email; a code is added to the store only by such a submission, bound to  *)
(* that state, challenge and user.                                          *)
C25_LoginIssuesOnlyWhenAllowed ==
    /\ [](\A form \in LoginForms, d \in LoginDelays :
             LoginResponse(form, d).status_code = 302
                => /\ C25_Allowed(form)
                   /\ LoginResponse(form, d).url = form.redirect_uri
                   /\ LoginResponse(form, d).code = nextCode + 1)
    /\ [][nextCode' = nextCode => codes' \subseteq codes]_vars
    /\ [][\/ nextCode' = nextCode
          \/ \A form \in LoginForms, d \in LoginDelays :
                \/ /\ C25_Allowed(form)
                   /\ LoginResponse(form, d).status_code = 302
                   /\ authCode'[nextCode'].state = form.state
                   /\ authCode'[nextCode'].code_challenge = form.code_challenge
                   /\ users[authCode'[nextCode'].user_id].email = Normalize(form.email)
                \/ ~desktop_login_submit(form, d)]_vars

(* a code in the store issued to a registered user for a state whose login  *)
(* page is still live, while another user's password would not verify       *)
C25_Witness ==
    \E c \in codes :
       /\ authCode[c].user_id \in DOMAIN users
       /\ authCode[c].state \in C18_LivePending
       /\ pending[authCode[c].state].code_challenge = authCode[c].code_challenge
       /\ \E form \in LoginForms : LoginOutcome(form, 0) = "invalid_credentials"

(* C31: no code in the store is bound to a user who has a registration     *)
(* session that is not completed.                                           *)
C31_NoCodeBeforeCompletion ==
    \A c \in codes : \A r \in DOMAIN regs :
       regs[r].user_id = authCode[c].user_id => regs[r].status = "completed"

-----------------------------------------------------------------------------
(* The store under concurrent calls (SpecStoreConc).                        *)

(* C29: under interleaved register_pending and issue_code calls, an entry   *)
(* a completed call has put in the store stays in it until it has expired   *)
(* (no call of this specification uses a code).                             *)
C29_NoLostStoreUpdate ==
    /\ [][\A s \in DOMAIN pending :
            s \in DOMAIN pending' \/ now - pending[s].created_at >= PendingTtl]_vars
    /\ [][\A c \in codes :
            c \in codes' \/ now - authCode[c].created_at >= CodeTtl \/ authCode[c].used]_vars

-----------------------------------------------------------------------------
(* Registration workflow under concurrent requests (SpecRegConc).           *)

(* C28: a session whose completion has been committed stays in the table, *)
(* with its user and its profile, whatever the handlers in flight commit.  *)
C28_CompletedNeverDeleted ==
    [][\A r \in DOMAIN regs :
          regs[r].status = "completed"
             => /\ r \in DOMAIN regs'
                /\ regs[r].user_id \in DOMAIN users => regs[r].user_id \in DOMAIN users'
                /\ regs[r].user_id \in profiles => regs[r].user_id \in profiles']_vars

(* C10: concurrent handlers, interleaved at their reads and commits, create  *)
(* no two users of one normalized email (the commit of the later insert     *)
(* fails and changes no table), and no commit lowers the step of a session. *)
C10_ConcurrentHandlersSafe ==
    /\ [](\A u1, u2 \in DOMAIN users :
             Normalize(users[u1].email) = Normalize(users[u2].email) => u1 = u2)
    /\ [](\A u \in DOMAIN users : u \in profiles /\ \E r \in DOMAIN regs : regs[r].user_id = u)
    /\ [][\A h \in Handlers :
            (hd[h].W.kind = "insert" /\ InsertUserConflict(users, hd[h].W) /\ HCommit(h))
                => /\ Outcome(hd[h].W) = "could_not_create_user"
                   /\ users' = users /\ profiles' = profiles /\ regs' = regs]_vars
    /\ [][\A r \in DOMAIN regs \cap DOMAIN regs' : regs'[r].step >= regs[r].step]_vars

====
